---- MODULE Spec2Model ----
(***************************************************************************)
(* Model of the note block engine generator (noteblock.py): the voxel      *)
(* canvas and place_block, the region transforms copy_area, stack_area and *)
(* cycle_area_down, the note layout planner gen_notes, the delay staircase *)
(* gen_delay_staircase, the clock engine gen_engine and the orchestrator   *)
(* export_schematic.                                                       *)
(***************************************************************************)
EXTENDS Integers, Sequences, FiniteSets, TLC

VARIABLES
    pc,             \* position of the running call
    shape,          \* <<height, width, depth>> of the canvas sf
    blocks,         \* canvas content: <<y, z, x>> -> <<block id, data>>
    orig,           \* the canvas as it was when the call started
    arg,            \* the arguments of the call under test (a record)
    loc,            \* the local variables of the running call (a record)
    called          \* the calls export_schematic has made so far, in order

vars == <<pc, shape, blocks, orig, arg, loc, called>>

(***************************************************************************)
(* Bounds of the model                                                     *)
(***************************************************************************)
MaxDelay == 40
MaxCycHeight == 3
MaxShift == 4
MaxExtent == 2
MaxTimes == 1
MaxEvents == 3
MaxChord == 3
MaxDur == 3
MaxDepth == 3
MaxNoteRows == 2
MaxRows == 6
MaxTick == 7
MaxSongLen == 2
MaxEngineRows == 12
MaxEngineTick == 16

(***************************************************************************)
(* Blocks and lookup tables                                                *)
(***************************************************************************)
None == -1

BlockID == [air |-> 0, planks |-> 5, note_block |-> 25, sticky_piston |-> 29,
            gold_block |-> 41, redstone_dust |-> 55, lever |-> 69,
            redstone_torch |-> 76, glowstone |-> 89, redstone_repeater |-> 93,
            wooden_slab |-> 126, redstone_block |-> 152, packed_ice |-> 174]

WoodState == [birch |-> 2, dark_oak |-> 5, upside_down_dark_oak |-> 13]

RedstoneTorchState == [up |-> 0, east |-> 1, west |-> 2, south |-> 3, north |-> 4]

RedstoneRepeaterState ==
    [north |-> <<0, 4, 8, 12>>, east |-> <<1, 5, 9, 13>>,
     south |-> <<2, 6, 10, 14>>, west |-> <<3, 7, 11, 15>>]

Block(block_id, data) == [id |-> block_id, data |-> data]

\* The value a failed dictionary lookup stands for (Python raises KeyError).
KeyError == [id |-> None, data |-> None]

INSTRUMENT_BLOCK ==
    [bell  |-> Block(BlockID.gold_block, None),
     chime |-> Block(BlockID.packed_ice, None),
     harp  |-> Block(BlockID.air, None),
     pling |-> Block(BlockID.glowstone, None),
     bass  |-> Block(BlockID.planks, WoodState.dark_oak)]

REDSTONE_TORCH_BLOCK(direction) ==
    Block(BlockID.redstone_torch, RedstoneTorchState[direction])

REDSTONE_REPEATER_BLOCK(direction, stage) ==
    IF stage \in 1..4
    THEN Block(BlockID.redstone_repeater, RedstoneRepeaterState[direction][stage])
    ELSE KeyError

REDSTONE_MAX == 15
LINE_BLOCK == Block(BlockID.planks, WoodState.birch)
WIRING_BLOCK == Block(BlockID.planks, WoodState.dark_oak)
WIRING_SLAB == Block(BlockID.wooden_slab, WoodState.upside_down_dark_oak)

Air == <<BlockID.air, 0>>
Min(a, b) == IF a <= b THEN a ELSE b
Max(a, b) == IF a >= b THEN a ELSE b

(***************************************************************************)
(* The canvas                                                              *)
(***************************************************************************)
\* numpy accepts an index i on an axis of length n when -n <= i < n, a
\* negative one counting from the end; anything else raises IndexError.
IndexOK(c, shp) ==
    /\ -shp[1] <= c[1] /\ c[1] < shp[1]
    /\ -shp[2] <= c[2] /\ c[2] < shp[2]
    /\ -shp[3] <= c[3] /\ c[3] < shp[3]

Wrap(c, shp) ==
    <<IF c[1] < 0 THEN c[1] + shp[1] ELSE c[1],
      IF c[2] < 0 THEN c[2] + shp[2] ELSE c[2],
      IF c[3] < 0 THEN c[3] + shp[3] ELSE c[3]>>

\* The cell lies inside the declared shape with non-negative indices.
Inside(c, shp) ==
    /\ 0 <= c[1] /\ c[1] < shp[1]
    /\ 0 <= c[2] /\ c[2] < shp[2]
    /\ 0 <= c[3] /\ c[3] < shp[3]

Cells(shp) == (0..(shp[1] - 1)) \X (0..(shp[2] - 1)) \X (0..(shp[3] - 1))

EmptyCanvas(shp) == [c \in Cells(shp) |-> Air]

\* One call of place_block, as data: the base x, y, z, the offsets and the block.
Place(x, y, z, ox, oy, oz, block) ==
    [x |-> x, y |-> y, z |-> z, ox |-> ox, oy |-> oy, oz |-> oz, block |-> block]

\* The cell <<y, z, x>> a place_block call addresses.
PlaceAddr(p) == <<p.y + p.oy, p.z + p.oz, p.x + p.ox>>

place_block(b, shp, p) ==
    [b EXCEPT ![Wrap(PlaceAddr(p), shp)] =
        <<p.block.id, IF p.block.data # None THEN p.block.data ELSE 0>>]

(***************************************************************************)
(* gen_delay_staircase                                                     *)
(***************************************************************************)
StairDepthMax(delay) == (delay \div 8) + 2

StairFinalDelay(delay) == IF delay % 8 > 0 THEN delay % 8 ELSE 8

\* The loop over the intermediate steps: four place_block calls per step.
StairLoopCalls(x, y, z, delay, block) ==
    [k \in 1..(4 * (StairDepthMax(delay) - 2)) |->
        LET depth == (k - 1) \div 4
            call  == (k - 1) % 4
        IN  CASE call = 0 -> Place(x, y, z, 1 + depth, 0, 0, block)
              [] call = 1 -> Place(x, y, z, 1 + depth, 1, 0,
                                   REDSTONE_REPEATER_BLOCK("west", 4))
              [] call = 2 -> Place(x, y, z, 1 + depth, 2, 0, block)
              [] call = 3 -> Place(x, y, z, 1 + depth, 3, 0,
                                   REDSTONE_REPEATER_BLOCK("east", 4))]

\* The place_block calls of gen_delay_staircase, in the order it makes them.
StairCalls(x, y, z, delay, block, slab) ==
    LET depth_max == StairDepthMax(delay)
        d == StairFinalDelay(delay)
    IN  <<Place(x, y, z, 0, 0, 0, Block(BlockID.redstone_dust, None)),
          Place(x, y, z, 0, 1, 0, block),
          Place(x, y, z, 0, 3, 0, block)>>
        \o StairLoopCalls(x, y, z, delay, block)
        \o <<Place(x, y, z, depth_max - 1, 0, 0,
                   Block(BlockID.planks, WoodState.dark_oak))>>
        \o (IF delay <= 4
            THEN <<Place(x, y, z, depth_max - 1, 0, 0,
                         Block(BlockID.wooden_slab, WoodState.upside_down_dark_oak))>>
            ELSE <<>>)
        \o <<Place(x, y, z, depth_max - 1, 1, 0,
                   REDSTONE_REPEATER_BLOCK("west", Min(4, d))),
             Place(x, y, z, depth_max - 1, 2, 0, block)>>
        \o (IF d > 4
            THEN <<Place(x, y, z, depth_max - 1, 3, 0,
                         REDSTONE_REPEATER_BLOCK("east", d - 4)),
                   Place(x, y, z, depth_max, 3, 0, block)>>
            ELSE <<Place(x, y, z, depth_max - 1, 3, 0,
                         Block(BlockID.redstone_dust, None))>>)
        \o <<Place(x, y, z, depth_max, 1, 0, block),
             Place(x, y, z, depth_max, 2, 0, Block(BlockID.redstone_dust, None))>>

\* The value gen_delay_staircase returns.
StairReturn(delay) == StairDepthMax(delay) + 1

\* gen_delay_staircase(sf, 0, 0, 0, delay, WIRING_BLOCK, WIRING_SLAB) on a
\* canvas that just holds the structure.
StairShape(delay) == <<4, 1, StairReturn(delay)>>

StairInit ==
    /\ pc = "stair"
    /\ arg \in [delay : 1..MaxDelay]
    /\ shape = StairShape(arg.delay)
    /\ blocks = EmptyCanvas(shape)
    /\ orig = blocks
    /\ loc = [k |-> 1, ret |-> None]
    /\ called = <<>>

\* One place_block call of gen_delay_staircase.
StairPlace ==
    /\ pc = "stair"
    /\ LET calls == StairCalls(0, 0, 0, arg.delay, WIRING_BLOCK, WIRING_SLAB)
       IN  /\ loc.k <= Len(calls)
           /\ blocks' = place_block(blocks, shape, calls[loc.k])
           /\ loc' = [loc EXCEPT !.k = loc.k + 1]
    /\ UNCHANGED <<pc, shape, orig, arg>>

StairDone ==
    /\ pc = "stair"
    /\ loc.k > Len(StairCalls(0, 0, 0, arg.delay, WIRING_BLOCK, WIRING_SLAB))
    /\ pc' = "stair_done"
    /\ loc' = [loc EXCEPT !.ret = StairReturn(arg.delay)]
    /\ UNCHANGED <<shape, blocks, orig, arg>>

StairNext == (StairPlace \/ StairDone) /\ UNCHANGED called

SpecStair == StairInit /\ [][StairNext]_vars

\* The delay stage (1..4) a repeater cell is set to.
RepeaterStage(cell) == (cell[2] \div 4) + 1

RECURSIVE SumStages(_, _)
SumStages(b, cs) ==
    IF cs = {} THEN 0
    ELSE LET c == CHOOSE c \in cs : TRUE
         IN  (IF b[c][1] = BlockID.redstone_repeater THEN RepeaterStage(b[c]) ELSE 0)
             + SumStages(b, cs \ {c})

\* The propagation delay of the structure on the canvas: the stages of all
\* its repeaters, chained.
TotalDelay(b) == SumStages(b, DOMAIN b)

\* C2: for every delay in 1..40 the finished staircase has a total
\* propagation delay exactly equal to delay.
C2_StaircaseDelayExact ==
    pc = "stair_done" => TotalDelay(blocks) = arg.delay

(***************************************************************************)
(* cycle_area_down                                                         *)
(***************************************************************************)
\* A canvas whose cells all differ, in the block array and in the data array.
DistinctCanvas(shp) ==
    [c \in Cells(shp) |-> <<1 + c[1] + shp[1] * c[3], 1 + c[2] + shp[2] * c[3]>>]

RECURSIVE gcd(_, _)
gcd(a, b) == IF b = 0 THEN a ELSE gcd(b, a % b)

InRegion(c, a) ==
    /\ a.y_lo <= c[1] /\ c[1] <= a.y_hi
    /\ a.z_lo <= c[2] /\ c[2] <= a.z_hi
    /\ a.x_lo <= c[3] /\ c[3] <= a.x_hi

CycleHeight(a) == a.y_hi - a.y_lo + 1

\* The index k the inner loop reads from: j + times, reduced once by height.
CycleK(j, times, height) ==
    LET k == j + times IN IF k >= height THEN k - height ELSE k

\* The local variables at the entry of cycle_area_down(region, times).
CycleEntry(a, times, call) ==
    [call |-> call, times |-> times, x |-> a.x_lo, z |-> a.z_lo, i |-> 0, j |-> 0,
     temp |-> Air, outside |-> FALSE]

\* The head of "for i in range(gcd(times, height))": the loop variables x, z
\* and i name the next iteration; its first statements read the cell y_lo + i.
CycleFor ==
    /\ pc = "cycle_for"
    /\ loc.x <= arg.x_hi
    /\ IF loc.z > arg.z_hi
       THEN /\ loc' = [loc EXCEPT !.x = loc.x + 1, !.z = arg.z_lo, !.i = 0]
            /\ UNCHANGED pc
       ELSE IF loc.i >= gcd(loc.times, CycleHeight(arg))
       THEN /\ loc' = [loc EXCEPT !.z = loc.z + 1, !.i = 0]
            /\ UNCHANGED pc
       ELSE LET c == <<arg.y_lo + loc.i, loc.z, loc.x>>
            IN  IF IndexOK(c, shape)
                THEN /\ loc' = [loc EXCEPT !.temp = blocks[Wrap(c, shape)],
                                           !.j = loc.i,
                                           !.outside = loc.outside \/ ~InRegion(c, arg)]
                     /\ pc' = "cycle_while"
                ELSE /\ pc' = "IndexError"
                     /\ UNCHANGED loc
    /\ UNCHANGED <<shape, blocks, orig, arg>>

\* One pass of "while True" that does not break: the cell y_lo + k is copied
\* to the cell y_lo + j.
CycleMove ==
    /\ pc = "cycle_while"
    /\ LET k == CycleK(loc.j, loc.times, CycleHeight(arg))
           src == <<arg.y_lo + k, loc.z, loc.x>>
           dst == <<arg.y_lo + loc.j, loc.z, loc.x>>
       IN  /\ k # loc.i
           /\ IF IndexOK(src, shape) /\ IndexOK(dst, shape)
              THEN /\ blocks' = [blocks EXCEPT ![Wrap(dst, shape)] = blocks[Wrap(src, shape)]]
                   /\ loc' = [loc EXCEPT !.j = k,
                                         !.outside = \/ loc.outside
                                                     \/ ~InRegion(src, arg)
                                                     \/ ~InRegion(dst, arg)]
                   /\ UNCHANGED pc
              ELSE /\ pc' = "IndexError"
                   /\ loc' = [loc EXCEPT !.outside = TRUE]
                   /\ UNCHANGED blocks
    /\ UNCHANGED <<shape, orig, arg>>

\* The pass that breaks (k == i) and the two statements after the loop.
CycleBreak ==
    /\ pc = "cycle_while"
    /\ CycleK(loc.j, loc.times, CycleHeight(arg)) = loc.i
    /\ LET dst == <<arg.y_lo + loc.j, loc.z, loc.x>>
       IN  IF IndexOK(dst, shape)
           THEN /\ blocks' = [blocks EXCEPT ![Wrap(dst, shape)] = loc.temp]
                /\ loc' = [loc EXCEPT !.i = loc.i + 1,
                                      !.outside = loc.outside \/ ~InRegion(dst, arg)]
                /\ pc' = "cycle_for"
           ELSE /\ pc' = "IndexError"
                /\ loc' = [loc EXCEPT !.outside = TRUE]
                /\ UNCHANGED blocks
    /\ UNCHANGED <<shape, orig, arg>>

\* cycle_area_down(region, s) has returned: the round trip goes on with
\* cycle_area_down(region, (H - s) mod H), and ends after it.
CycleReturn ==
    /\ pc = "cycle_for"
    /\ loc.x > arg.x_hi
    /\ IF loc.call = 1
       THEN /\ loc' = [CycleEntry(arg, (CycleHeight(arg) - arg.times) % CycleHeight(arg), 2)
                          EXCEPT !.outside = loc.outside]
            /\ UNCHANGED pc
       ELSE /\ pc' = "cycle_done"
            /\ UNCHANGED loc
    /\ UNCHANGED <<shape, blocks, orig, arg>>

CycleShape == <<MaxCycHeight + 2, 1, 2>>

CycleInit ==
    /\ pc = "cycle_for"
    /\ shape = CycleShape
    /\ blocks = DistinctCanvas(shape)
    /\ orig = blocks
    /\ arg \in [x_lo : 0..1, x_hi : 0..1, y_lo : 0..1, y_hi : 0..MaxCycHeight,
                z_lo : {0}, z_hi : {0}, times : 0..MaxShift]
    /\ arg.x_lo <= arg.x_hi
    /\ arg.y_lo <= arg.y_hi
    /\ CycleHeight(arg) <= MaxCycHeight
    /\ loc = CycleEntry(arg, arg.times, 1)
    /\ called = <<>>

CycleNext == (CycleFor \/ CycleMove \/ CycleBreak \/ CycleReturn) /\ UNCHANGED called

SpecCycle == CycleInit /\ [][CycleNext]_vars

\* C4: cycle_area_down(region, s) then cycle_area_down(region, (H - s) mod H)
\* terminates, touches no cell outside the region and leaves every cell as it
\* was, for any height H >= 1 and any shift s >= 0.
C4_CycleRoundTrip ==
    /\ pc # "IndexError"
    /\ ~loc.outside
    /\ pc = "cycle_done" => blocks = orig

\* The same for shifts that do not exceed the height.
C4_CycleRoundTripSmallShift ==
    arg.times <= CycleHeight(arg) => C4_CycleRoundTrip

\* A round trip of a real rotation has ended.
C4_Rotated ==
    /\ pc = "cycle_done"
    /\ arg.times > 0 /\ arg.times < CycleHeight(arg)

(***************************************************************************)
(* copy_area and stack_area                                                *)
(***************************************************************************)
\* len(range(lo, hi + 1))
RangeLen(lo, hi) == Max(0, hi - lo + 1)

\* len(zip(range(src_lo, src_hi + 1), range(dest_lo, dest_hi + 1)))
ZipLen(src_lo, src_hi, dest_lo, dest_hi) ==
    Min(RangeLen(src_lo, src_hi), RangeLen(dest_lo, dest_hi))

\* The arguments of one copy_area call.
CopyArgs(sx_lo, sy_lo, sz_lo, sx_hi, sy_hi, sz_hi, dx_lo, dy_lo, dz_lo, dx_hi, dy_hi, dz_hi) ==
    [src_x_lo |-> sx_lo, src_y_lo |-> sy_lo, src_z_lo |-> sz_lo,
     src_x_hi |-> sx_hi, src_y_hi |-> sy_hi, src_z_hi |-> sz_hi,
     dest_x_lo |-> dx_lo, dest_y_lo |-> dy_lo, dest_z_lo |-> dz_lo,
     dest_x_hi |-> dx_hi, dest_y_hi |-> dy_hi, dest_z_hi |-> dz_hi]

\* The <<source cell, destination cell>> pairs copy_area visits, in the order
\* of its three nested zip loops (x outermost, z innermost).
CopyPairs(a) ==
    LET nx == ZipLen(a.src_x_lo, a.src_x_hi, a.dest_x_lo, a.dest_x_hi)
        ny == ZipLen(a.src_y_lo, a.src_y_hi, a.dest_y_lo, a.dest_y_hi)
        nz == ZipLen(a.src_z_lo, a.src_z_hi, a.dest_z_lo, a.dest_z_hi)
    IN  [k \in 1..(nx * ny * nz) |->
            LET tx == (k - 1) \div (ny * nz)
                ty == ((k - 1) \div nz) % ny
                tz == (k - 1) % nz
            IN  << <<a.src_y_lo + ty, a.src_z_lo + tz, a.src_x_lo + tx>>,
                   <<a.dest_y_lo + ty, a.dest_z_lo + tz, a.dest_x_lo + tx>> >>]

RECURSIVE CopyFrom(_, _, _, _)
CopyFrom(b, shp, pairs, k) ==
    IF k > Len(pairs) THEN [blocks |-> b, error |-> FALSE]
    ELSE IF ~IndexOK(pairs[k][1], shp) \/ ~IndexOK(pairs[k][2], shp)
    THEN [blocks |-> b, error |-> TRUE]
    ELSE CopyFrom([b EXCEPT ![Wrap(pairs[k][2], shp)] = b[Wrap(pairs[k][1], shp)]],
                  shp, pairs, k + 1)

\* copy_area: the canvas it leaves, and whether an index raised IndexError.
copy_area(b, shp, a) == CopyFrom(b, shp, CopyPairs(a), 1)

\* The offset of the copies stack_area makes to the south.
StackDepth(x_lo, x_hi) == x_hi + x_lo + 1

\* The z_hi of the region stack_area copies to the south.
StackSouthZHi(z_hi, up_times, east_times, width) == z_hi + up_times * width

\* The copy_area calls of stack_area, in the order it makes them.
StackCalls(x_lo, y_lo, z_lo, x_hi, y_hi, z_hi, up_times, east_times, south_times) ==
    LET height == y_hi - y_lo + 1
        width  == z_hi - z_lo + 1
        y_hi2  == y_hi + up_times * height
        depth  == StackDepth(x_lo, x_hi)
        z_hi2  == StackSouthZHi(z_hi, up_times, east_times, width)
    IN  [i \in 1..Max(0, up_times) |->
            CopyArgs(x_lo, y_lo, z_lo, x_hi, y_hi, z_hi,
                     x_lo, y_lo + i * height, z_lo, x_hi, y_hi + i * height, z_hi)]
        \o [i \in 1..Max(0, east_times) |->
            CopyArgs(x_lo, y_lo, z_lo, x_hi, y_hi2, z_hi,
                     x_lo, y_lo, z_lo + i * width, x_hi, y_hi2, z_hi + i * width)]
        \o [i \in 1..Max(0, south_times) |->
            CopyArgs(x_lo, y_lo, z_lo, x_hi, y_hi2, z_hi2,
                     x_lo + i * depth, y_lo, z_lo, x_hi + i * depth, y_hi2, z_hi2)]

StackCallsOf(a) ==
    StackCalls(a.x_lo, a.y_lo, a.z_lo, a.x_hi, a.y_hi, a.z_hi,
               a.up_times, a.east_times, a.south_times)

CopyShape == <<MaxExtent * (MaxTimes + 1), MaxExtent * (MaxTimes + 1),
               MaxExtent + MaxTimes * (2 * MaxExtent + 1)>>

\* A direct call of copy_area, or a call of stack_area.
CopyInit ==
    /\ shape = CopyShape
    /\ blocks = DistinctCanvas(shape)
    /\ orig = blocks
    /\ loc = [k |-> 1]
    /\ called = <<>>
    /\ \/ /\ pc = "copy_area"
          /\ arg \in [src_x_lo : {0}, src_y_lo : {0}, src_z_lo : {0},
                      src_x_hi : 0..(MaxExtent - 1), src_y_hi : 0..(MaxExtent - 1),
                      src_z_hi : 0..(MaxExtent - 1),
                      dest_x_lo : {MaxExtent}, dest_y_lo : {MaxExtent},
                      dest_z_lo : {MaxExtent},
                      dest_x_hi : MaxExtent..(2 * MaxExtent - 1),
                      dest_y_hi : MaxExtent..(2 * MaxExtent - 1),
                      dest_z_hi : MaxExtent..(2 * MaxExtent - 1)]
       \/ /\ pc = "stack_area"
          /\ arg \in [x_lo : 0..1, y_lo : {0}, z_lo : {0},
                      x_hi : 0..MaxExtent, y_hi : 0..(MaxExtent - 1),
                      z_hi : 0..(MaxExtent - 1),
                      up_times : 0..MaxTimes, east_times : 0..MaxTimes,
                      south_times : 0..MaxTimes]
          /\ arg.x_lo <= arg.x_hi
          /\ arg.x_hi - arg.x_lo + 1 <= MaxExtent

\* The direct call copy_area(sf, src..., dest...).
CopyCall ==
    /\ pc = "copy_area"
    /\ LET r == copy_area(blocks, shape, arg)
       IN  /\ blocks' = r.blocks
           /\ pc' = IF r.error THEN "IndexError" ELSE "copy_done"
    /\ UNCHANGED <<shape, orig, arg, loc>>

\* One copy_area call of stack_area.
StackCopy ==
    /\ pc = "stack_area"
    /\ loc.k <= Len(StackCallsOf(arg))
    /\ LET r == copy_area(blocks, shape, StackCallsOf(arg)[loc.k])
       IN  /\ blocks' = r.blocks
           /\ pc' = IF r.error THEN "IndexError" ELSE pc
    /\ loc' = [loc EXCEPT !.k = loc.k + 1]
    /\ UNCHANGED <<shape, orig, arg>>

StackReturn ==
    /\ pc = "stack_area"
    /\ loc.k > Len(StackCallsOf(arg))
    /\ pc' = "stack_done"
    /\ UNCHANGED <<shape, blocks, orig, arg, loc>>

CopyNext == (CopyCall \/ StackCopy \/ StackReturn) /\ UNCHANGED called

SpecCopy == CopyInit /\ [][CopyNext]_vars

IsCopyCall == "src_x_lo" \in DOMAIN arg
IsStackCall == "up_times" \in DOMAIN arg

ExtentsDiffer(a) ==
    \/ a.src_x_hi - a.src_x_lo # a.dest_x_hi - a.dest_x_lo
    \/ a.src_y_hi - a.src_y_lo # a.dest_y_hi - a.dest_y_lo
    \/ a.src_z_hi - a.src_z_lo # a.dest_z_hi - a.dest_z_lo

\* C5: copy_area rejects a call whose source and destination cuboids differ
\* in extent on some axis: it raises an error and writes nothing.
C5_CopyRejectsMismatch ==
    (IsCopyCall /\ ExtentsDiffer(arg)) =>
        /\ pc \in {"copy_area", "copy_rejected"}
        /\ blocks = orig

\* The cell of the canvas, or a value no cell holds when there is no such cell.
CellAt(b, c) == IF c \in DOMAIN b THEN b[c] ELSE <<None, None>>

\* C6: stack_area leaves, on each axis, count copies of the region, the i-th
\* one offset by i times the region's own extent along that axis (y_hi - y_lo + 1
\* up, z_hi - z_lo + 1 east, x_hi - x_lo + 1 south), each equal to the region
\* cell for cell.
C6_StackCopiesAtExtent ==
    (IsStackCall /\ pc = "stack_done") =>
        \A c \in {c \in DOMAIN orig : InRegion(c, arg)} :
            /\ \A i \in 1..arg.up_times :
                 CellAt(blocks, <<c[1] + i * (arg.y_hi - arg.y_lo + 1), c[2], c[3]>>) = orig[c]
            /\ \A i \in 1..arg.east_times :
                 CellAt(blocks, <<c[1], c[2] + i * (arg.z_hi - arg.z_lo + 1), c[3]>>) = orig[c]
            /\ \A i \in 1..arg.south_times :
                 CellAt(blocks, <<c[1], c[2], c[3] + i * (arg.x_hi - arg.x_lo + 1)>>) = orig[c]

\* The same for a region that starts at x = 0 and is replicated up as often as east.
C6_StackCopiesFromOrigin ==
    (IsStackCall /\ arg.x_lo = 0 /\ arg.up_times = arg.east_times) => C6_StackCopiesAtExtent

(***************************************************************************)
(* gen_notes                                                               *)
(***************************************************************************)
\* Three entries of note_parser: <<instrument, pitch>>.
note_parser == [C4 |-> <<"harp", 6>>, E4 |-> <<"harp", 10>>, F3 |-> <<"bass", 23>>]

SeqToSet(q) == {q[k] : k \in 1..Len(q)}

\* "while attempt in prev_allocs: attempt += 1; if attempt >= depth_max: raise":
\* the attempt the loop ends with, or None when it raises PolyphonyException.
RECURSIVE NextAttempt(_, _, _)
NextAttempt(attempt, prev_allocs, depth_max) ==
    IF attempt \notin SeqToSet(prev_allocs) THEN attempt
    ELSE IF attempt + 1 >= depth_max THEN None
    ELSE NextAttempt(attempt + 1, prev_allocs, depth_max)

\* The two place_block calls of place_note_block, and the block it returns.
NoteBlockCalls(x, y, z, ox, oy, oz, instrument) ==
    <<Place(x, y, z, ox, oy, oz, Block(BlockID.note_block, None)),
      Place(x, y, z, ox, oy - 1, oz, INSTRUMENT_BLOCK[instrument])>>

\* "if row == 0: prev_allocs = []"
ResetAllocs(row, prev_allocs) == IF row = 0 THEN <<>> ELSE prev_allocs

\* The slot is recorded whatever the instrument block is.
AppendAlloc_Always(allocs, block, attempt) == Append(allocs, attempt)

\* "if block.id != BlockID.air: allocs.append(attempt)"
AppendAlloc(allocs, block, attempt) ==
    IF block.id # BlockID.air THEN Append(allocs, attempt) ELSE allocs

\* "depth_reached = max(depth_reached, attempt + 1)"
DepthReached(depth_reached, attempt) == Max(depth_reached, attempt + 1)

\* The local variables at the entry of gen_notes, with what the model records
\* of the run: cur, the event being placed (its cell, the active set it is
\* allocated against, the slots and instrument blocks of its notes so far);
\* last_col, the column of the event before it; max_slot, the largest slot
\* used; outside, whether a write addressed a cell outside the canvas.
NotesEntry ==
    [prev_allocs |-> <<>>, depth_reached |-> 0, i |-> 0, ev |-> 1,
     chord |-> <<>>, duration |-> 0, allocs |-> <<>>, attempt |-> 0, n |-> 1,
     cur |-> [col |-> None, row |-> None, active |-> {}, slots |-> <<>>, air |-> <<>>],
     last_col |-> None, max_slot |-> None, outside |-> FALSE]

Chords(tokens, n) == UNION {[1..k -> tokens] : k \in 0..n}

\* The events the song may go on with: the next one of the song when the call
\* is given one, any event within the bounds otherwise.
NextEvents ==
    IF "song" \in DOMAIN arg
    THEN {arg.song[k] : k \in {loc.ev} \cap DOMAIN arg.song}
    ELSE IF loc.ev <= MaxEvents
         THEN [chord : Chords({"C4", "F3"}, MaxChord), duration : 1..MaxDur]
         ELSE {}

SongEnded ==
    IF "song" \in DOMAIN arg THEN loc.ev > Len(arg.song) ELSE TRUE

\* The head of "for chord, duration in song_info["notes"]" and the statements
\* before the loop over the notes.
NotesEvent ==
    /\ pc = "gen_notes"
    /\ \E event \in NextEvents :
         LET col == loc.i \div arg.rows
             row == loc.i % arg.rows
             prev == ResetAllocs(row, loc.prev_allocs)
         IN  loc' = [loc EXCEPT !.chord = event.chord, !.duration = event.duration,
                                !.prev_allocs = prev, !.allocs = <<>>,
                                !.attempt = 0, !.n = 1,
                                !.cur = [col |-> col, row |-> row,
                                         active |-> SeqToSet(prev),
                                         slots |-> <<>>, air |-> <<>>]]
    /\ pc' = "gen_notes_chord"
    /\ UNCHANGED <<shape, blocks, orig, arg>>

\* One pass of "for note in chord".
NotesNote ==
    /\ pc = "gen_notes_chord"
    /\ loc.n <= Len(loc.chord)
    /\ LET attempt == NextAttempt(loc.attempt, loc.prev_allocs, arg.depth_max)
           y_base == 2 * (arg.rows - loc.cur.row) - 1
           z_base == loc.cur.col * 2 + 1
           instrument == note_parser[loc.chord[loc.n]][1]
           calls == NoteBlockCalls(0, 0, 0, attempt, y_base, z_base, instrument)
           block == INSTRUMENT_BLOCK[instrument]
           addrs == {PlaceAddr(calls[k]) : k \in 1..2}
       IN  IF attempt = None
           THEN /\ pc' = "PolyphonyException"
                /\ UNCHANGED loc
           ELSE IF \E c \in addrs : ~IndexOK(c, shape)
           THEN /\ pc' = "IndexError"
                /\ loc' = [loc EXCEPT !.attempt = attempt, !.outside = TRUE]
           ELSE /\ UNCHANGED pc
                /\ loc' = [loc EXCEPT
                     !.allocs = AppendAlloc(loc.allocs, block, attempt),
                     !.depth_reached = DepthReached(loc.depth_reached, attempt),
                     !.attempt = attempt + 1,
                     !.n = loc.n + 1,
                     !.cur = [loc.cur EXCEPT
                                !.slots = Append(loc.cur.slots, attempt),
                                !.air = Append(loc.cur.air, block.id = BlockID.air)],
                     !.max_slot = Max(loc.max_slot, attempt),
                     !.outside = loc.outside \/ \E c \in addrs : ~Inside(c, shape)]
    /\ UNCHANGED <<shape, blocks, orig, arg>>

\* The two statements after the loop over the notes.
NotesChordEnd ==
    /\ pc = "gen_notes_chord"
    /\ loc.n > Len(loc.chord)
    /\ loc' = [loc EXCEPT !.prev_allocs = loc.allocs,
                          !.i = loc.i + loc.duration,
                          !.ev = loc.ev + 1,
                          !.last_col = loc.cur.col]
    /\ pc' = "gen_notes"
    /\ UNCHANGED <<shape, blocks, orig, arg>>

\* "return depth_reached"
NotesReturn ==
    /\ pc = "gen_notes"
    /\ SongEnded
    /\ pc' = "gen_notes_done"
    /\ called' = Append(called, "gen_notes:return")
    /\ UNCHANGED <<shape, blocks, orig, arg, loc>>

\* gen_notes(sf, 0, 0, 0, rows, cols, depth_max, song_info) for any song of at
\* most MaxEvents events, on a canvas of the height and depth export_schematic
\* gives it and wide enough for every column of the song. The content of the
\* canvas is not tracked: what is recorded is which cells are addressed.
NotesInit ==
    /\ pc = "gen_notes"
    /\ arg \in [rows : 1..MaxNoteRows, depth_max : 1..MaxDepth]
    /\ shape = <<arg.rows * 2 + 2, 2 * MaxEvents * MaxDur, arg.depth_max>>
    /\ blocks = <<>>
    /\ orig = <<>>
    /\ loc = NotesEntry
    /\ called = <<"gen_notes">>

NotesNext ==
    \/ (NotesEvent \/ NotesNote \/ NotesChordEnd) /\ UNCHANGED called
    \/ NotesReturn

SpecNotes == NotesInit /\ [][NotesNext]_vars

InNotes == pc \in {"gen_notes", "gen_notes_chord", "gen_notes_done",
                   "PolyphonyException", "IndexError"}

\* C1: a chord of k notes allocated against an active set A with
\* k + |A| > depth_max ends in PolyphonyException, and no note is placed, or
\* tried, at a slot index >= depth_max.
C1_PolyphonyRaised ==
    InNotes =>
        /\ (Len(loc.chord) + Cardinality(loc.cur.active) > arg.depth_max
              => pc \in {"gen_notes_chord", "PolyphonyException"} /\ loc.n <= Len(loc.chord))
        /\ \A k \in 1..Len(loc.cur.slots) : loc.cur.slots[k] < arg.depth_max
        /\ pc # "IndexError"

\* C9: the notes of an event that is the first one placed in its column are
\* allocated against an empty active set.
C9_ColumnStartsEmpty ==
    (InNotes /\ loc.cur.col # None /\ loc.cur.col # loc.last_col
             /\ Len(loc.cur.slots) >= 1)
        => loc.cur.active = {}

\* What the code does: the active set is empty for an event in row 0.
C9_RowZeroStartsEmpty ==
    (InNotes /\ loc.cur.row = 0) => loc.cur.active = {}

\* C10: the slots of one chord are strictly increasing in note order and avoid
\* the active set the chord is allocated against; the active set handed to
\* the next event is exactly the slots of the chord whose instrument block is
\* not air; depth_reached is the largest slot used plus one (0 with no note).
C10_SlotsOfChord ==
    InNotes =>
        LET slots == loc.cur.slots IN
        /\ \A k \in 1..Len(slots) :
             /\ slots[k] \notin loc.cur.active
             /\ k > 1 => slots[k - 1] < slots[k]
        /\ (pc \in {"gen_notes", "gen_notes_done"} =>
              SeqToSet(loc.prev_allocs) = {slots[k] : k \in {k \in 1..Len(slots) : ~loc.cur.air[k]}})
        /\ loc.depth_reached = loc.max_slot + 1

\* A chord that had to skip an active slot and mixes a harp note with a bass
\* note is done, and gen_notes has returned.
C10_Witness ==
    /\ pc = "gen_notes_done"
    /\ loc.cur.active # {}
    /\ Len(loc.cur.slots) >= 2
    /\ \E k \in 1..Len(loc.cur.slots) : loc.cur.air[k]
    /\ \E k \in 1..Len(loc.cur.slots) : ~loc.cur.air[k] /\ loc.cur.slots[k] > Cardinality(loc.cur.active)
    /\ loc.depth_reached >= 3

(***************************************************************************)
(* gen_lines, gen_torch_tower and the stages of gen_engine. The content of *)
(* the canvas is not tracked here: a stage is the sequence of its accesses *)
(* to the canvas, each the cell addressed and the block looked up for it.  *)
(***************************************************************************)
Access(addr, block) == [addr |-> addr, block |-> block]

\* The accesses of a sequence of place_block calls.
CallAccesses(calls) == [k \in 1..Len(calls) |-> Access(PlaceAddr(calls[k]), calls[k].block)]

\* The accesses of copy_area calls: each pair reads a cell and writes one.
RECURSIVE CopyAccesses(_)
CopyAccesses(copies) ==
    IF copies = <<>> THEN <<>>
    ELSE LET pairs == CopyPairs(Head(copies))
         IN  [k \in 1..(2 * Len(pairs)) |->
                 Access(pairs[(k + 1) \div 2][IF k % 2 = 1 THEN 1 ELSE 2],
                        Block(BlockID.air, None))]
             \o CopyAccesses(Tail(copies))

\* The accesses of cycle_area_down(x_lo .. z_hi, times) for 0 <= times <= height:
\* every cell of the region that lies on a cycle of more than one cell, column
\* by column (that these are all it touches is what SpecCycle checks).
CycleAccesses(x_lo, y_lo, z_lo, x_hi, y_hi, z_hi, times) ==
    LET height == y_hi - y_lo + 1
        nx == RangeLen(x_lo, x_hi)
        nz == RangeLen(z_lo, z_hi)
    IN  [k \in 1..(nx * nz * height) |->
            Access(<<y_lo + ((k - 1) % height),
                     z_lo + (((k - 1) \div height) % nz),
                     x_lo + ((k - 1) \div (height * nz))>>,
                   Block(BlockID.air, None))]

\* gen_lines: two place_block calls per col, row and depth.
LinesCalls(x, y, z, rows, cols, length, block) ==
    [k \in 1..(2 * Max(0, cols) * Max(0, rows) * Max(0, length)) |->
        LET call  == (k - 1) % 2
            depth == ((k - 1) \div 2) % length
            row   == ((k - 1) \div (2 * length)) % rows
            col   == (k - 1) \div (2 * length * rows)
        IN  IF call = 0
            THEN Place(x, y, z, depth, row * 2, col * 2, block)
            ELSE Place(x, y, z, depth, row * 2 + 1, col * 2,
                       Block(BlockID.redstone_dust, None))]

TorchTowerCalls(x, y, z, height, block) ==
    [k \in 1..Max(0, height) |->
        IF (k - 1) % 2 = 0
        THEN Place(x, y, z, 0, k - 1, 0, block)
        ELSE Place(x, y, z, 0, k - 1, 0, REDSTONE_TORCH_BLOCK("up"))]

AirBlock == Block(BlockID.air, None)

\* "delay_remaining = tick_interval * (int(rows / 2) - 1) - 5"
EngineDelayRemaining(tick_interval, rows) == tick_interval * ((rows \div 2) - 1) - 5

DelayLo(tick_interval, row) == (tick_interval + 2) * row

\* The window is one tick wider.
DelayHi_Wider(tick_interval, row) == (tick_interval + 2) * row + 8

DelayHi(tick_interval, row) == (tick_interval + 2) * row + 7

\* "if delay_remaining >= 4": the extra pair of stage-4 repeaters is placed.
ExtraPair(delay_remaining) == delay_remaining >= 4

\* The extra pair is placed but "delay_remaining -= 4" is left out.
TerminalStage_NotReduced(delay_remaining) == 1 + delay_remaining

\* The stage the two terminal repeaters are looked up with.
TerminalStage(delay_remaining) ==
    1 + (IF ExtraPair(delay_remaining) THEN delay_remaining - 4 ELSE delay_remaining)

\* The stages of gen_engine before the row selection, in order.
EnginePreStages == <<"head", "stair_east", "cycle_east", "stair_south", "cycle_south",
                     "stack_up", "cleanup", "tower_base">>

\* The stages after it.
EnginePostStages == <<"select_wiring", "towers", "tuning", "tail", "stack_east",
                      "final_cleanup">>

\* The accesses of one stage of gen_engine(sf, x, y, z, rows, cols,
\* tick_interval, block, slab); row and delay_remaining are the values the
\* local variables have when the stage starts.
EngineStage(stage, x, y, z, rows, cols, tick_interval, block, slab, row, delay_remaining) ==
    LET stair_depth == StairReturn(tick_interval)
        q == 2 * rows - 4 * row
    IN  CASE stage = "head" ->
               CallAccesses(<<
                 Place(x, y, z, 0, 0, 0, REDSTONE_TORCH_BLOCK("north")),
                 Place(x, y, z, 0, 1, 0, slab),
                 Place(x, y, z, 0, 2, 0, REDSTONE_REPEATER_BLOCK("west", 1))>>)
          [] stage = "stair_east" ->
               CallAccesses(StairCalls(x + 1, y, z, tick_interval, block, slab))
          [] stage = "cycle_east" ->
               CycleAccesses(x + 1, y, z, x + 1 + stair_depth, y + 3, z, 2)
          [] stage = "stair_south" ->
               CallAccesses(StairCalls(x, y, z + 1, tick_interval, block, slab))
          [] stage = "cycle_south" ->
               CycleAccesses(x, y, z + 1, x + stair_depth, y + 3, z + 1, 3)
          [] stage = "stack_up" ->
               CopyAccesses(StackCalls(x, y, z, x + 1 + stair_depth, y + 3, z + 1,
                                       (rows \div 2) - 1, 0, 0))
          [] stage = "cleanup" ->
               CallAccesses([k \in 1..(4 * (stair_depth - 1)) |->
                 LET x_i  == (k - 1) \div 4
                     call == (k - 1) % 4
                 IN  CASE call = 0 -> Place(x, y, z, 1 + x_i, rows * 2 - 1, 1, AirBlock)
                       [] call = 1 -> Place(x, y, z, 2 + x_i, 0, 0, AirBlock)
                       [] call = 2 -> Place(x, y, z, 2 + x_i, 1, 0, AirBlock)
                       [] call = 3 -> Place(x, y, z, 1 + x_i, 0, 1, AirBlock)])
          [] stage = "tower_base" ->
               CallAccesses(<<
                 Place(x, y, z, 1 + stair_depth, 2 * rows - 3, 0, REDSTONE_TORCH_BLOCK("south")),
                 Place(x, y, z, 2 + stair_depth, 2 * rows - 3, 0, block),
                 Place(x, y, z, stair_depth, 2 * rows - 3, 1, block),
                 Place(x, y, z, 1 + stair_depth, 2 * rows - 3, 1, block),
                 Place(x, y, z, 2 + stair_depth, 2 * rows - 3, 1, REDSTONE_TORCH_BLOCK("south")),
                 Place(x, y, z, 1 + stair_depth, 2 * rows - 2, 0, block),
                 Place(x, y, z, 2 + stair_depth, 2 * rows - 2, 0, REDSTONE_TORCH_BLOCK("south")),
                 Place(x, y, z, 1 + stair_depth, 2 * rows - 2, 1, REDSTONE_TORCH_BLOCK("south")),
                 Place(x, y, z, 2 + stair_depth, 2 * rows - 2, 1, block),
                 Place(x, y, z, 2 + stair_depth, 2 * rows - 1, 0, block)>>)
          [] stage = "select_wiring" ->
               CallAccesses(<<
                 Place(x, y, z, stair_depth, q - 6, 1, block),
                 Place(x, y, z, stair_depth, q - 5, 1, Block(BlockID.redstone_dust, None)),
                 Place(x, y, z, 1 + stair_depth, q - 5, 1, block),
                 Place(x, y, z, 1 + stair_depth, q - 4, 0, block),
                 Place(x, y, z, stair_depth, q - 4, 1, block),
                 Place(x, y, z, 2 + stair_depth, q - 4, 0, REDSTONE_TORCH_BLOCK("east")),
                 Place(x, y, z, 1 + stair_depth, q - 4, 1, REDSTONE_TORCH_BLOCK("up"))>>)
          [] stage = "towers" ->
               CallAccesses(
                 TorchTowerCalls(x + 2 + stair_depth, y + q - 3, z, 4 * row, block)
                 \o TorchTowerCalls(x + 1 + stair_depth, y + q - 3, z + 1, 4 * row, block))
          [] stage = "tuning" ->
               CallAccesses(
                 (IF ExtraPair(delay_remaining)
                  THEN <<Place(x, y, z, stair_depth - 1, 2 * rows - 3, 1, block),
                         Place(x, y, z, stair_depth, 2 * rows - 2, 0, block),
                         Place(x, y, z, stair_depth - 1, 2 * rows - 2, 1,
                               REDSTONE_REPEATER_BLOCK("west", 4)),
                         Place(x, y, z, stair_depth, 2 * rows - 1, 0,
                               REDSTONE_REPEATER_BLOCK("west", 4))>>
                  ELSE <<>>)
                 \o <<Place(x, y, z, stair_depth, 2 * rows - 2, 1,
                            REDSTONE_REPEATER_BLOCK("west", TerminalStage(delay_remaining))),
                      Place(x, y, z, 1 + stair_depth, 2 * rows - 1, 0,
                            REDSTONE_REPEATER_BLOCK("west", TerminalStage(delay_remaining)))>>)
          [] stage = "tail" ->
               CallAccesses(<<
                 Place(x, y, z, stair_depth + 1, 2 * rows - 7, 0, REDSTONE_TORCH_BLOCK("west")),
                 Place(x, y, z, stair_depth, 2 * rows - 7, 1, REDSTONE_TORCH_BLOCK("west")),
                 Place(x, y, z, stair_depth + 1, 2 * rows - 6, 0, block),
                 Place(x, y, z, stair_depth + 2, 2 * rows - 6, 0, REDSTONE_TORCH_BLOCK("east")),
                 Place(x, y, z, stair_depth, 2 * rows - 6, 1, block),
                 Place(x, y, z, stair_depth + 1, 2 * rows - 6, 1, REDSTONE_TORCH_BLOCK("east"))>>)
          [] stage = "stack_east" ->
               CopyAccesses(StackCalls(x, y, z, x + 2 + stair_depth,
                                       y + (rows \div 2) * 4 - 1, z + 1, 0, cols - 1, 0))
          [] stage = "final_cleanup" ->
               CallAccesses(
                 [k \in 1..(4 * stair_depth) |->
                   LET x_i  == (k - 1) \div 4
                       call == (k - 1) % 4
                   IN  CASE call = 0 -> Place(x, y, z, 1 + x_i, 2 * rows - 3, 1, AirBlock)
                         [] call = 1 -> Place(x, y, z, 2 + x_i, 2 * rows - 2, 0, AirBlock)
                         [] call = 2 -> Place(x, y, z, 1 + x_i, 2 * rows - 2, 1, AirBlock)
                         [] call = 3 -> Place(x, y, z, 2 + x_i, 2 * rows - 1, 0, AirBlock)]
                 \o <<Place(x, y, z, stair_depth + 1, 2 * rows - 3, 0, AirBlock),
                      Place(x, y, z, stair_depth + 2, 2 * rows - 2, 0, AirBlock),
                      Place(x, y, z, stair_depth + 1, 2 * rows - 2, 1, AirBlock),
                      Place(x, y, z, 0, 2 * rows - 2, 1, AirBlock),
                      Place(x, y, z, 1, 2 * rows - 1, 0, AirBlock),
                      Place(x, y, z, stair_depth, 2 * rows - 1, 0, AirBlock),
                      Place(x, y, z, stair_depth + 2, 2 * rows - 1, 0, AirBlock)>>)

\* delay_remaining when the stage has run.
DelayAfter(stage, delay_remaining, row, tick_interval) ==
    CASE stage = "select_wiring" -> delay_remaining - row * tick_interval
      [] stage = "towers" -> delay_remaining - 2 * row
      [] stage = "tuning" -> IF ExtraPair(delay_remaining) THEN delay_remaining - 4
                             ELSE delay_remaining
      [] OTHER -> delay_remaining

\* The accesses that fail: the block's lookup raises KeyError, or the cell's
\* index raises IndexError.
Failing(accesses, shp) ==
    {k \in 1..Len(accesses) :
        accesses[k].block = KeyError \/ ~IndexOK(accesses[k].addr, shp)}

FirstOf(ks) == CHOOSE k \in ks : \A j \in ks : k <= j

\* How a sequence of accesses ends: "ok", or the exception of the first access
\* that fails (the block is looked up before the cell is addressed).
Run(accesses, shp) ==
    LET bad == Failing(accesses, shp)
    IN  IF bad = {} THEN "ok"
        ELSE IF accesses[FirstOf(bad)].block = KeyError THEN "KeyError"
        ELSE "IndexError"

\* Some access made before the sequence ends addresses a cell outside the canvas.
AddressesOutside(accesses, shp) ==
    LET bad == Failing(accesses, shp)
        last == IF bad = {} THEN Len(accesses) ELSE FirstOf(bad)
    IN  \E k \in 1..last :
          accesses[k].block # KeyError /\ ~Inside(accesses[k].addr, shp)

(***************************************************************************)
(* gen_engine and export_schematic                                         *)
(***************************************************************************)
\* The local variables at the entry of gen_engine(sf, depth_reached, 2, 0, ...).
EngineEntry(depth_reached, max_slot, outside) ==
    [x |-> depth_reached, y |-> 2, z |-> 0, stage |-> 1, row |-> None,
     row_select |-> None, delay_remaining |-> None,
     depth_reached |-> depth_reached, max_slot |-> max_slot, outside |-> outside]

StageAccesses(stage) ==
    EngineStage(stage, loc.x, loc.y, loc.z, arg.rows, arg.cols, arg.tick_interval,
                WIRING_BLOCK, WIRING_SLAB, loc.row, loc.delay_remaining)

\* gen_lines(sf, 0, 1, 0, rows, cols, depth_reached, LINE_BLOCK), whole.
GenLines ==
    /\ pc = "gen_notes_done"
    /\ "song" \in DOMAIN arg
    /\ LET accesses == CallAccesses(LinesCalls(0, 1, 0, arg.rows, arg.cols,
                                               loc.depth_reached, LINE_BLOCK))
           r == Run(accesses, shape)
       IN  /\ pc' = IF r = "ok" THEN "gen_lines_done" ELSE r
           /\ loc' = [loc EXCEPT !.outside = loc.outside \/ AddressesOutside(accesses, shape)]
    /\ called' = IF Run(CallAccesses(LinesCalls(0, 1, 0, arg.rows, arg.cols,
                                                 loc.depth_reached, LINE_BLOCK)), shape) = "ok"
                  THEN called \o <<"gen_lines", "gen_lines:return">>
                  ELSE Append(called, "gen_lines")
    /\ UNCHANGED <<shape, blocks, orig, arg>>

\* The call gen_engine(sf, depth_reached, 2, 0, rows, cols, tick_interval, ...).
EngineEnter ==
    /\ pc = "gen_lines_done"
    /\ pc' = "gen_engine"
    /\ loc' = EngineEntry(loc.depth_reached, loc.max_slot, loc.outside)
    /\ called' = Append(called, "gen_engine")
    /\ UNCHANGED <<shape, blocks, orig, arg>>

\* One stage of gen_engine before the row selection.
EnginePre ==
    /\ pc = "gen_engine"
    /\ loc.stage <= Len(EnginePreStages)
    /\ LET accesses == StageAccesses(EnginePreStages[loc.stage])
           r == Run(accesses, shape)
       IN  /\ pc' = IF r = "ok" THEN pc ELSE r
           /\ loc' = [loc EXCEPT !.stage = loc.stage + 1,
                                 !.outside = loc.outside \/ AddressesOutside(accesses, shape)]
    /\ UNCHANGED <<shape, blocks, orig, arg, called>>

\* "delay_remaining = ...; row_select = -1" and the entry of the loop.
EngineRowsInit ==
    /\ pc = "gen_engine"
    /\ loc.stage > Len(EnginePreStages)
    /\ pc' = "gen_engine_rows"
    /\ loc' = [loc EXCEPT !.delay_remaining = EngineDelayRemaining(arg.tick_interval, arg.rows),
                          !.row_select = -1,
                          !.row = 1]
    /\ UNCHANGED <<shape, blocks, orig, arg, called>>

\* The head of "for row in range(1, rows)" with one pass of its body, or,
\* when the range is used up, "if row_select == -1: raise TorchTowerException".
EngineRow ==
    /\ pc = "gen_engine_rows"
    /\ IF loc.row >= arg.rows
       THEN /\ pc' = IF loc.row_select = -1 THEN "TorchTowerException"
                     ELSE "gen_engine_post"
            /\ UNCHANGED loc
       ELSE IF loc.delay_remaining < DelayLo(arg.tick_interval, loc.row)
       THEN /\ pc' = "TorchTowerException"
            /\ UNCHANGED loc
       ELSE IF loc.delay_remaining <= DelayHi(arg.tick_interval, loc.row)
       THEN /\ pc' = "gen_engine_post"
            /\ loc' = [loc EXCEPT !.row_select = loc.row, !.stage = 1]
       ELSE /\ UNCHANGED pc
            /\ loc' = [loc EXCEPT !.row = loc.row + 1]
    /\ UNCHANGED <<shape, blocks, orig, arg, called>>

\* One stage of gen_engine after the row selection.
EnginePost ==
    /\ pc = "gen_engine_post"
    /\ loc.stage <= Len(EnginePostStages)
    /\ LET stage == EnginePostStages[loc.stage]
           accesses == StageAccesses(stage)
           r == Run(accesses, shape)
       IN  /\ pc' = IF r = "ok" THEN pc ELSE r
           /\ loc' = [loc EXCEPT
                 !.stage = loc.stage + 1,
                 !.delay_remaining = DelayAfter(stage, loc.delay_remaining, loc.row,
                                                arg.tick_interval),
                 !.outside = loc.outside \/ AddressesOutside(accesses, shape)]
    /\ UNCHANGED <<shape, blocks, orig, arg, called>>

EngineReturn ==
    /\ pc = "gen_engine_post"
    /\ loc.stage > Len(EnginePostStages)
    /\ pc' = "gen_engine_done"
    /\ called' = Append(called, "gen_engine:return")
    /\ UNCHANGED <<shape, blocks, orig, arg, loc>>

\* The file is saved although gen_engine raised TorchTowerException.
Save_AfterRaise ==
    /\ pc \in {"gen_engine_done", "TorchTowerException"}
    /\ pc' = "saved"
    /\ called' = Append(called, "save")
    /\ UNCHANGED <<shape, blocks, orig, arg, loc>>

\* sf.save(f"{filename}.schematic")
Save ==
    /\ pc = "gen_engine_done"
    /\ pc' = "saved"
    /\ called' = Append(called, "save")
    /\ UNCHANGED <<shape, blocks, orig, arg, loc>>

RECURSIVE SongLength(_)
SongLength(song) ==
    IF song = <<>> THEN 0 ELSE Head(song).duration + SongLength(Tail(song))

\* ceil(a / b)
ceil_div(a, b) == (a + b - 1) \div b

\* The shape export_schematic declares.
ExportShape(song, rows, tick_interval) ==
    <<rows * 2 + 2,
      ceil_div(SongLength(song), rows) * 2,
      REDSTONE_MAX + 6 + ((tick_interval - 1) \div 8)>>

\* A chord of n bass notes.
BassChord(n) == [k \in 1..n |-> "F3"]

\* The events of the songs export_schematic is run on: single harp notes, and
\* chords of bass notes as large as the engine's room (REDSTONE_MAX + 1), as
\* the canvas is deep (REDSTONE_MAX + 6) and one larger.
ExportEvents ==
    [chord : {<<"C4">>, <<"E4">>}, duration : 1..2]
    \cup [chord : {BassChord(REDSTONE_MAX + 1), BassChord(REDSTONE_MAX + 6),
                   BassChord(REDSTONE_MAX + 7)},
          duration : {1}]

ExportSongs == UNION {[1..n -> ExportEvents] : n \in 1..MaxSongLen}

\* export_schematic(filename, song_info, rows) at its call of gen_notes.
Init ==
    /\ pc = "gen_notes"
    /\ \E song \in ExportSongs, rows \in 1..MaxRows, tick_interval \in 1..MaxTick :
         /\ shape = ExportShape(song, rows, tick_interval)
         /\ arg = [song |-> song, rows |-> rows, tick_interval |-> tick_interval,
                   cols |-> ceil_div(SongLength(song), rows),
                   depth_max |-> shape[3]]
    /\ blocks = <<>>
    /\ orig = <<>>
    /\ loc = NotesEntry
    /\ called = <<"gen_notes">>

Next ==
    \/ NotesNext
    \/ GenLines
    \/ EngineEnter
    \/ EnginePre
    \/ EngineRowsInit
    \/ EngineRow
    \/ EnginePost
    \/ EngineReturn
    \/ Save

Spec == Init /\ [][Next]_vars

\* gen_engine as export_schematic calls it after gen_notes and gen_lines have
\* returned, for a song of cols * rows events of at most one harp note each.
EngineInit ==
    /\ pc = "gen_lines_done"
    /\ \E rows \in 1..MaxEngineRows, tick_interval \in 1..MaxEngineTick,
          cols \in 1..2, depth_reached \in 0..1 :
         /\ shape = <<rows * 2 + 2, cols * 2, REDSTONE_MAX + 6 + ((tick_interval - 1) \div 8)>>
         /\ arg = [rows |-> rows, tick_interval |-> tick_interval, cols |-> cols,
                   depth_max |-> shape[3]]
         /\ loc = [depth_reached |-> depth_reached, max_slot |-> depth_reached - 1,
                   outside |-> FALSE]
    /\ blocks = <<>>
    /\ orig = <<>>
    /\ called = <<"gen_notes", "gen_notes:return", "gen_lines", "gen_lines:return">>

EngineNext ==
    \/ EngineEnter
    \/ EnginePre
    \/ EngineRowsInit
    \/ EngineRow
    \/ EnginePost
    \/ EngineReturn

SpecEngine == EngineInit /\ [][EngineNext]_vars

InEngine == pc \in {"gen_engine", "gen_engine_rows", "gen_engine_post", "gen_engine_done"}

\* The remaining delay the row selection starts from, and its window for row r.
C3_Budget == arg.tick_interval * ((arg.rows \div 2) - 1) - 5

C3_InWindow(r) ==
    /\ (arg.tick_interval + 2) * r <= C3_Budget
    /\ C3_Budget <= (arg.tick_interval + 2) * r + 7

\* C3: the row selection picks the smallest r in [1, rows) whose window
\* [(tick_interval + 2) r, (tick_interval + 2) r + 7] holds the budget
\* tick_interval (rows / 2 - 1) - 5, and TorchTowerException is raised only
\* when no r in [1, rows) has such a window, the early raise included.
C3_RowSelection ==
    /\ pc = "TorchTowerException" => \A r \in 1..(arg.rows - 1) : ~C3_InWindow(r)
    /\ pc \in {"gen_engine_post", "gen_engine_done"} =>
         /\ loc.row_select \in 1..(arg.rows - 1)
         /\ loc.row = loc.row_select
         /\ C3_InWindow(loc.row_select)
         /\ \A r \in 1..(loc.row_select - 1) : ~C3_InWindow(r)

\* A second row was selected after the first one's window was passed.
C3_Witness ==
    /\ pc = "gen_engine_done"
    /\ loc.row_select >= 2

\* The early raise happened at a row after the first.
C3_WitnessRaise ==
    /\ pc = "TorchTowerException"
    /\ loc.row >= 2

ExportCalls == <<"gen_notes", "gen_notes:return", "gen_lines", "gen_lines:return",
                 "gen_engine", "gen_engine:return", "save">>

IsPrefix(p, q) == Len(p) <= Len(q) /\ \A k \in 1..Len(p) : p[k] = q[k]

Raised == pc \in {"PolyphonyException", "TorchTowerException", "IndexError", "KeyError"}

\* C7: export_schematic calls gen_notes, gen_lines and gen_engine in this
\* order, gen_engine at the depth offset gen_notes returned, and sf.save only
\* after all three have returned; once one of them has raised, sf.save is not
\* called.
C7_SaveAfterAllStages ==
    /\ IsPrefix(called, ExportCalls)
    /\ Raised => "save" \notin SeqToSet(called)
    /\ pc = "saved" <=> "save" \in SeqToSet(called)
    /\ "gen_engine" \in SeqToSet(called) =>
         loc.x = loc.depth_reached /\ loc.depth_reached = loc.max_slot + 1

\* The file was saved.
C7_WitnessSaved == pc = "saved" /\ loc.depth_reached >= 1

\* gen_notes raised PolyphonyException.
C7_WitnessPolyphony == pc = "PolyphonyException"

\* gen_engine raised TorchTowerException.
C7_WitnessTorchTower == pc = "TorchTowerException"

\* C8: every access to the canvas made during export_schematic addresses a
\* cell inside the declared shape, with non-negative indices.
C8_WritesInsideCanvas == ~loc.outside

\* The stage about to run in gen_engine, when there is one.
C11_StageAtHand ==
    IF pc = "gen_engine" /\ loc.stage <= Len(EnginePreStages)
    THEN {EnginePreStages[loc.stage]}
    ELSE IF pc = "gen_engine_post" /\ loc.stage <= Len(EnginePostStages)
    THEN {EnginePostStages[loc.stage]}
    ELSE {}

\* No repeater of gen_delay_staircase is looked up with a stage outside 1..4.
C11_StairStagesInRange ==
    \A delay \in 1..MaxDelay :
       LET calls == StairCalls(0, 0, 0, delay, WIRING_BLOCK, WIRING_SLAB)
       IN  \A k \in 1..Len(calls) : calls[k].block # KeyError

\* C11: when the row selection has succeeded with row r, the two terminal
\* repeaters are looked up with the same stage s in 1..4 and, with e = 1 when
\* the extra pair of stage-4 repeaters is placed and e = 0 otherwise,
\* r * tick_interval + 2 r + 4 e + (s - 1) is the budget
\* tick_interval (rows / 2 - 1) - 5; no repeater lookup of gen_engine or
\* gen_delay_staircase uses a stage outside 1..4.
C11_TerminalTuning ==
    /\ pc # "KeyError"
    /\ C11_StairStagesInRange
    /\ \A stage \in C11_StageAtHand :
         LET accesses == StageAccesses(stage)
         IN  /\ \A k \in 1..Len(accesses) : accesses[k].block # KeyError
             /\ stage = "tuning" =>
                  LET n == Len(accesses)
                      e == IF n = 6 THEN 1 ELSE 0
                      r == loc.row_select
                  IN  /\ n \in {2, 6}
                      /\ e = 1 <=> loc.delay_remaining >= 4
                      /\ \E s \in 1..4 :
                           /\ accesses[n - 1].block = REDSTONE_REPEATER_BLOCK("west", s)
                           /\ accesses[n].block = REDSTONE_REPEATER_BLOCK("west", s)
                           /\ r * arg.tick_interval + 2 * r + 4 * e + (s - 1) = C3_Budget

\* gen_engine has returned after placing the extra pair and terminal
\* repeaters of a stage above 1.
C11_Witness ==
    /\ pc = "gen_engine_done"
    /\ C3_Budget - loc.row_select * (arg.tick_interval + 2) >= 4
    /\ loc.delay_remaining >= 1

\* gen_engine has been called and has ended, by returning or by raising.
C12_EngineEnded ==
    /\ "gen_engine" \in SeqToSet(called)
    /\ pc \in {"gen_engine_done", "saved"} \/ Raised

\* C12: for rows in 1..5 and any tick_interval >= 1 gen_engine ends by
\* raising TorchTowerException, so export_schematic saves no file for fewer
\* than 6 rows, the two-event example with rows = 2 included.
C12_FewRowsRaiseTorchTower ==
    (arg.rows \in 1..5 /\ C12_EngineEnded) => pc = "TorchTowerException"

\* What the code does: no file is saved for fewer than 6 rows.
C12_FewRowsNeverSaved ==
    arg.rows \in 1..5 => pc # "saved"

\* What the code does: with 2..5 rows, and the notes within the first
\* REDSTONE_MAX slots, gen_engine ends by raising TorchTowerException.
C12_TwoToFiveRowsRaiseTorchTower ==
    (arg.rows \in 2..5 /\ loc.depth_reached <= REDSTONE_MAX /\ C12_EngineEnded)
        => pc = "TorchTowerException"

\* The two-event example, [C4] 1, [E4] 1 with rows = 2, has ended in
\* TorchTowerException.
C12_ExampleRaised ==
    /\ arg.rows = 2
    /\ arg.song = <<[chord |-> <<"C4">>, duration |-> 1], [chord |-> <<"E4">>, duration |-> 1]>>
    /\ loc.depth_reached = 1
    /\ pc = "TorchTowerException"

====
